---- MODULE Spec2Model ----
(***************************************************************************)
(* Model of main.py: the Streamlit page main() and its two adapters,       *)
(* generate_barcode and generate_qrcode.                                   *)
(*                                                                         *)
(* A text payload is the string of `digits` characters "1" followed by at  *)
(* most one further character `tail`:                                      *)
(*   ""   nothing                                                          *)
(*   "A"  an upper-case letter  (Code 128, Code 39 and QR alphanumeric)    *)
(*   "!"  ASCII punctuation     (Code 128 only)                            *)
(*   "e'" a non-ASCII letter, e-acute (in no barcode alphabet, 2 bytes)    *)
(*   "^2" superscript two: str.isdigit() is True, int() raises ValueError  *)
(* The page a run of main() produces is the sequence of the calls it makes *)
(* to the adapters and to Streamlit's output elements, in program order.   *)
(***************************************************************************)
EXTENDS Integers, Sequences, FiniteSets, TLC

VARIABLES code_type, data, selectbox_state, page, last, chosen, memo, call

vars == <<code_type, data, selectbox_state, page, last, chosen, memo, call>>

\* ------------------------------------------------------------------ bounds
\* Longest run of digits a user types into the page (short payloads).
MaxTyped == 2
\* How far around the QR numeric capacity the long page payloads reach.
UIMargin == 1
\* Longest run of digits of the short payloads handed to the adapters directly.
MaxDigits == 21
\* How far below/above the QR numeric capacity the long adapter payloads reach.
Margin == 10

\* ---------------------------------------------------------------- payloads
Tails == {"", "A", "!", "e'", "^2"}

NoData == [digits |-> 0, tail |-> ""]

StrLen(s) == s.digits + (IF s.tail = "" THEN 0 ELSE 1)

\* len(s.encode("utf-8"))
ByteLen(s) == s.digits + (CASE s.tail = "" -> 0
                            [] s.tail \in {"A", "!"} -> 1
                            [] OTHER -> 2)

\* s[:k]
Prefix(s, k) == IF k >= StrLen(s) THEN s ELSE [digits |-> k, tail |-> ""]

\* str.isdigit(): non-empty and every character a Unicode digit
IsDigit(s) == StrLen(s) > 0 /\ s.tail \in {"", "^2"}

\* int(c) succeeds for every character of s
IsDecimal(s) == s.tail = ""

\* Variant of NotData: the emptiness test left out.
NotDataDropped(s) == FALSE

\* `not data` of main(): the empty string is the only falsy text
NotData(s) == StrLen(s) = 0

\* ------------------------------------------------- python-barcode, as called
\* The names the six selector options and other names resolve to in
\* barcode.get_barcode_class (its registry has "pzn", not "pzn7").
OPTIONS == <<"code128", "code39", "ean13", "ean8", "upca", "pzn7">>

RegisteredBarcodes == {"code128", "code39", "ean13", "ean8", "upca", "pzn"}

\* The exception classes barcode.errors defines.
BarcodeErrors == {"BarcodeError", "IllegalCharacterError", "BarcodeNotFoundError",
                  "NumberOfDigitsError", "WrongCountryCodeError"}

\* The digits a numeric symbology takes before its check digit.
SymbologyDigits(barcode_type) == CASE barcode_type = "ean13" -> 12
                                   [] barcode_type = "ean8" -> 7
                                   [] barcode_type = "upca" -> 11
                                   [] OTHER -> 6

\* Whether every character of s is in the symbology's alphabet.
InCharset(s, barcode_type) == CASE barcode_type = "code128" -> s.tail \in {"", "A", "!"}
                                [] barcode_type = "code39" -> s.tail \in {"", "A"}
                                [] OTHER -> s.tail = ""

\* barcode_class(data, writer=ImageWriter()) and barcode_instance.write(...):
\* "ok" or the class of the exception raised.
BarcodeBuild(s, barcode_type) ==
    IF barcode_type \in {"code128", "code39"}
    THEN IF InCharset(s, barcode_type) THEN "ok" ELSE "IllegalCharacterError"
    ELSE LET n == SymbologyDigits(barcode_type)
             head == Prefix(s, n)
         IN IF ~IsDigit(head) THEN "IllegalCharacterError"
            ELSE IF StrLen(head) < n THEN "NumberOfDigitsError"
            ELSE IF ~IsDecimal(head) THEN "ValueError"
            ELSE "ok"

\* Lines 22-31 of generate_barcode: the body of the try block.
BarcodeTry(s, barcode_type) ==
    IF barcode_type \notin RegisteredBarcodes THEN "BarcodeNotFoundError"
    ELSE BarcodeBuild(s, barcode_type)

\* issubclass(exc, cls)
IsSubclass(exc, cls) ==
    \/ exc = cls
    \/ cls = "Exception"
    \/ cls = "BarcodeError" /\ exc \in BarcodeErrors

\* ------------------------------------------------------------------ events
Event(op, arg, d) == [op |-> op, arg |-> arg, data |-> d]

Has(events, op) == \E i \in 1..Len(events) : events[i].op = op

HasArg(events, op, arg) ==
    \E i \in 1..Len(events) : events[i].op = op /\ events[i].arg = arg

Count(events, ops) == Cardinality({i \in 1..Len(events) : events[i].op \in ops})

\* ------------------------------------------------------- generate_barcode
\* The except clauses of generate_barcode, in source order: the expression
\* each names and the failure kind its st.error reports.
ExceptClauses ==
    << [cls |-> "BarcodeNotFoundError", kind |-> "UnsupportedSymbology"],
       [cls |-> "NumberError", kind |-> "InvalidPayload"],
       [cls |-> "IllegalCharacterError", kind |-> "IllegalCharacter"],
       [cls |-> "Exception", kind |-> "Unknown"] >>

\* Whether the expression an except clause names evaluates: an attribute of
\* barcode.errors, or the builtin Exception. barcode.errors has no
\* NumberError (the digit-count error is NumberOfDigitsError).
ClauseResolves(cls) == cls = "Exception" \/ cls \in BarcodeErrors

RECURSIVE Handle(_, _)
\* The except clauses from the i-th on, for an exception of class exc: the
\* clause's expression is evaluated (a missing attribute raises
\* AttributeError out of the function), then matched.
Handle(exc, i) ==
    IF i > Len(ExceptClauses)
    THEN [ret |-> "raise", events |-> <<Event("raise", exc, NoData)>>]
    ELSE IF ~ClauseResolves(ExceptClauses[i].cls)
    THEN [ret |-> "raise", events |-> <<Event("raise", "AttributeError", NoData)>>]
    ELSE IF IsSubclass(exc, ExceptClauses[i].cls)
    THEN [ret |-> "None",
          events |-> <<Event("st.error", ExceptClauses[i].kind, NoData),
                       Event("return", "None", NoData)>>]
    ELSE Handle(exc, i + 1)

generate_barcode(s, barcode_type) ==
    LET r == BarcodeTry(s, barcode_type)
        h == Handle(r, 1)
    IN IF r = "ok"
       THEN [ret |-> "image",
             events |-> <<Event("generate_barcode", barcode_type, s),
                          Event("return", "image", NoData)>>]
       ELSE [ret |-> h.ret,
             events |-> <<Event("generate_barcode", barcode_type, s)>> \o h.events]

\* ------------------------------------------------------- qrcode, as called
\* version=1 of qrcode.QRCode(...)
QR_VERSION == 1

\* Variant of FIT: qr.make(fit=False), the symbol stays at QR_VERSION.
FIT_OFF == FALSE

\* fit=True of qr.make(...)
FIT == TRUE

\* optimize of qr.add_data(data): the shortest run coded in a mode of its own
OPTIMIZE == 20

\* Data codewords of versions 1..40 at ERROR_CORRECT_L (BIT_LIMIT_TABLE / 8).
DataCodewordsL ==
    << 19, 34, 55, 80, 108, 136, 156, 194, 232, 274,
       324, 370, 428, 461, 523, 589, 647, 721, 795, 861,
       932, 1006, 1094, 1174, 1276, 1370, 1468, 1531, 1631, 1735,
       1843, 1955, 2071, 2191, 2306, 2434, 2566, 2702, 2812, 2956 >>

MaxVersion == Len(DataCodewordsL)

BitLimit(version) == 8 * DataCodewordsL[version]

\* util.optimal_data_chunks(data, minimum=OPTIMIZE): the (mode, length) chunks.
DataChunks(s) ==
    IF ByteLen(s) = 0 THEN <<>>
    ELSE IF ByteLen(s) <= OPTIMIZE
    THEN << [mode |-> (CASE s.tail = "" -> "NUMBER"
                         [] s.tail = "A" -> "ALPHA_NUM"
                         [] OTHER -> "8BIT_BYTE"),
             len |-> ByteLen(s)] >>
    ELSE IF s.digits >= OPTIMIZE
    THEN << [mode |-> "NUMBER", len |-> s.digits] >>
         \o (IF s.tail = "" THEN <<>>
             ELSE << [mode |-> "8BIT_BYTE", len |-> ByteLen(s) - s.digits] >>)
    ELSE << [mode |-> "8BIT_BYTE", len |-> ByteLen(s)] >>

\* util.length_in_bits(mode, version)
LengthInBits(mode, version) ==
    LET band == IF version < 10 THEN 1 ELSE IF version < 27 THEN 2 ELSE 3
    IN CASE mode = "NUMBER" -> <<10, 12, 14>>[band]
         [] mode = "ALPHA_NUM" -> <<9, 11, 13>>[band]
         [] OTHER -> <<8, 16, 16>>[band]

\* QRData.write: the bits of the characters themselves
DataBits(chunk) ==
    CASE chunk.mode = "NUMBER" ->
            10 * (chunk.len \div 3) + <<0, 4, 7>>[(chunk.len % 3) + 1]
      [] chunk.mode = "ALPHA_NUM" ->
            11 * (chunk.len \div 2) + 6 * (chunk.len % 2)
      [] OTHER -> 8 * chunk.len

RECURSIVE SumBits(_, _, _)
SumBits(chunks, version, i) ==
    IF i > Len(chunks) THEN 0
    ELSE 4 + LengthInBits(chunks[i].mode, version) + DataBits(chunks[i])
         + SumBits(chunks, version, i + 1)

\* len(buffer) once every chunk is written with the length fields of `version`
NeededBits(s, version) == SumBits(DataChunks(s), version, 1)

RECURSIVE BisectLeft(_, _)
\* bisect_left(BIT_LIMIT_TABLE[L], needed, version): 41 when nothing fits
BisectLeft(needed, version) ==
    IF version > MaxVersion THEN MaxVersion + 1
    ELSE IF BitLimit(version) >= needed THEN version
    ELSE BisectLeft(needed, version + 1)

\* whether two versions use the same length fields
SameModeSizes(v, w) ==
    LengthInBits("NUMBER", v) = LengthInBits("NUMBER", w)

RECURSIVE best_fit(_, _)
\* QRCode.best_fit(start): the version chosen, or 0 for DataOverflowError
best_fit(s, start) ==
    LET version == BisectLeft(NeededBits(s, start), start)
    IN IF version > MaxVersion THEN 0
       ELSE IF ~SameModeSizes(version, start) THEN best_fit(s, version)
       ELSE version

\* Lines 60-70 of generate_qrcode: the body of the try block.
QRTry(s) ==
    LET version == IF FIT THEN best_fit(s, QR_VERSION) ELSE QR_VERSION
    IN IF version = 0 THEN "DataOverflowError"
       ELSE IF NeededBits(s, version) > BitLimit(version) THEN "DataOverflowError"
       ELSE "ok"

generate_qrcode(s) ==
    IF QRTry(s) = "ok"
    THEN [ret |-> "image",
          events |-> <<Event("generate_qrcode", "box_size=2", s),
                       Event("return", "image", NoData)>>]
    ELSE [ret |-> "None",
          events |-> <<Event("generate_qrcode", "box_size=2", s),
                       Event("st.error", "Unknown", NoData),
                       Event("return", "None", NoData)>>]

\* The most digits a NUMBER chunk holds at the largest version.
NumericCapacity ==
    LET room == BitLimit(MaxVersion) - 4 - LengthInBits("NUMBER", MaxVersion)
    IN 3 * (room \div 10)
       + (IF room % 10 >= 7 THEN 2 ELSE IF room % 10 >= 4 THEN 1 ELSE 0)

\* -------------------------------------------------------------------- main
CodeTypes == {"Barcode", "QR Code"}

\* Variant of st_button: a toggle that stays True once clicked.
st_button_sticky(pressed) == TRUE

\* st.button("Generate"): True only in the run its click triggered
st_button(pressed) == pressed

\* st.selectbox(...): the stored choice, or the first option when the session
\* holds none for the widget
st_selectbox(state) == IF state = "none" THEN OPTIONS[1] ELSE state

\* Variant of FILENAME_BARCODE: the QR branch's name pasted into the barcode branch.
FILENAME_SWAPPED == "qrcode.png"

FILENAME_BARCODE == "barcode.png"

FILENAME_QRCODE == "qrcode.png"

\* Variant of Display: the `if image:` test left out.
DisplayAlways(ret, ct, filename) ==
    << Event("st.image", ct, NoData), Event("st.download_button", filename, NoData) >>

\* Lines 101-121: `if image:` shows the preview and the download button,
\* else the generic error.
Display(ret, ct, filename) ==
    IF ret = "image"
    THEN << Event("st.image", ct, NoData),
            Event("st.download_button", filename, NoData) >>
    ELSE << Event("st.error", "Code generation failed", NoData) >>

\* One run of main() with the widget values ct, d, the stored selector choice
\* sel and the button reporting `pressed`: what the run calls and emits.
main(pressed, ct, d, sel) ==
    IF ~st_button(pressed) THEN <<>>
    ELSE IF NotData(d)
    THEN << Event("st.warning", "Please enter data.", NoData) >>
    ELSE IF ct = "Barcode"
    THEN LET barcode_type == st_selectbox(sel)
             image == generate_barcode(d, barcode_type)
         IN << Event("st.selectbox", barcode_type, NoData) >> \o image.events
            \o (IF image.ret = "raise" THEN <<>>
                ELSE Display(image.ret, ct, FILENAME_BARCODE))
    ELSE LET image == generate_qrcode(d)
         IN image.events \o Display(image.ret, ct, FILENAME_QRCODE)

\* ----------------------------------------------------- Streamlit's runner
\* The selector's value on the page, "none" when the page has no selector.
Shown(events) ==
    IF Has(events, "st.selectbox")
    THEN (events[CHOOSE i \in 1..Len(events) : events[i].op = "st.selectbox"]).arg
    ELSE "none"

\* A script run: an exception that leaves main() ends the run and is shown
\* on the page in place of the rest.
ScriptRun(pressed, ct, d, sel) ==
    LET ev == main(pressed, ct, d, sel)
    IN IF Has(ev, "raise")
       THEN ev \o << Event("st.exception", ev[Len(ev)].arg, NoData) >>
       ELSE ev

\* Variant of SessionAfter: the stored choice outlives a run without the selector.
SessionKeep(sel, events) ==
    IF Has(events, "st.selectbox") THEN Shown(events) ELSE sel

\* The selector's stored value after a run: a widget the run did not create
\* loses its value.
SessionAfter(sel, events) ==
    IF Has(events, "st.selectbox") THEN Shown(events) ELSE "none"

\* ------------------------------------------------------------------- state
UIDigits == (0..MaxTyped) \cup ((NumericCapacity - UIMargin)..(NumericCapacity + UIMargin))

\* The characters typed into the page: a digit, a letter and a non-ASCII letter
\* (the page only ever reaches Code 128 and QR, which tell no others apart).
UITails == {"", "A", "e'"}

UIPayloads == [digits : UIDigits, tail : UITails]

AdapterDigits == (0..MaxDigits) \cup ((NumericCapacity - Margin)..(NumericCapacity + Margin))

AdapterPayloads == {s \in [digits : AdapterDigits, tail : Tails] : StrLen(s) > 0}

BarcodeTypes == {OPTIONS[i] : i \in 1..Len(OPTIONS)} \cup {"pzn", "bogus"}

NoMemo == [set |-> FALSE, age |-> 0, code_type |-> "Barcode", data |-> NoData,
           shown |-> "none", outcome |-> <<>>]

NoCall == [fn |-> "none", barcode_type |-> "none", data |-> NoData,
           ret |-> "none", events |-> <<>>]

\* The page after the first run of the script: the radio on its first option,
\* the text input empty (value=""), the button not pressed.
Init ==
    /\ code_type = "Barcode"
    /\ data = NoData
    /\ selectbox_state = "none"
    /\ page = <<>>
    /\ last = [pressed |-> FALSE, shown |-> "none", chosen |-> "none"]
    /\ chosen = "none"
    /\ memo = NoMemo
    /\ call = NoCall

\* A rerun of the script. `remember` records this submit (its inputs as the
\* user saw them, and the page it produced) for comparison with later ones.
Rerun(pressed, ct, d, sel, ch, remember) ==
    LET ev == ScriptRun(pressed, ct, d, sel)
    IN /\ code_type' = ct
       /\ data' = d
       /\ page' = ev
       /\ selectbox_state' = SessionAfter(sel, ev)
       /\ last' = [pressed |-> pressed, shown |-> Shown(page), chosen |-> ch]
       /\ chosen' = IF Shown(ev) # "none" THEN Shown(ev) ELSE ch
       /\ memo' = IF remember
                  THEN [set |-> TRUE, age |-> 0, code_type |-> ct, data |-> d,
                        shown |-> Shown(page), outcome |-> ev]
                  ELSE IF memo.set THEN [memo EXCEPT !.age = 1] ELSE memo
       /\ UNCHANGED call

\* The user picks the other option of the radio.
SelectCodeType(k) ==
    /\ k # code_type
    /\ Rerun(FALSE, k, data, selectbox_state, chosen, FALSE)

\* The user commits a new text.
EnterData(d) ==
    /\ d # data
    /\ Rerun(FALSE, code_type, d, selectbox_state, chosen, FALSE)

\* The user picks another symbology in the selector the page shows.
SelectBarcodeType(t) ==
    /\ Shown(page) # "none"
    /\ t # Shown(page)
    /\ Rerun(FALSE, code_type, data, t, t, FALSE)

\* The user clicks the download button the page shows.
ClickDownload ==
    /\ Has(page, "st.download_button")
    /\ Rerun(FALSE, code_type, data, selectbox_state, chosen, FALSE)

\* The user clicks Generate.
PressGenerate(remember) ==
    /\ remember \in BOOLEAN
    /\ Rerun(TRUE, code_type, data, selectbox_state, chosen, remember)

Next ==
    \/ \E k \in CodeTypes : SelectCodeType(k)
    \/ \E d \in UIPayloads : EnterData(d)
    \/ \E i \in 1..Len(OPTIONS) : SelectBarcodeType(OPTIONS[i])
    \/ ClickDownload
    \/ \E remember \in BOOLEAN : PressGenerate(remember)

Spec == Init /\ [][Next]_vars

\* ------------------------------------------- the adapters, called directly
\* A call about to be made: any non-empty payload; any symbology name for
\* generate_barcode.
Pending(fn, d, t) ==
    [fn |-> fn, barcode_type |-> t, data |-> d, ret |-> "pending", events |-> <<>>]

InitAdapters ==
    /\ code_type = "Barcode"
    /\ data = NoData
    /\ selectbox_state = "none"
    /\ page = <<>>
    /\ last = [pressed |-> FALSE, shown |-> "none", chosen |-> "none"]
    /\ chosen = "none"
    /\ memo = NoMemo
    /\ call \in {Pending("generate_barcode", d, t) : d \in AdapterPayloads, t \in BarcodeTypes}
                \cup {Pending("generate_qrcode", d, "none") : d \in AdapterPayloads}

CallBarcode ==
    /\ call.fn = "generate_barcode"
    /\ call.ret = "pending"
    /\ LET r == generate_barcode(call.data, call.barcode_type)
       IN call' = [call EXCEPT !.ret = r.ret, !.events = r.events]
    /\ UNCHANGED <<code_type, data, selectbox_state, page, last, chosen, memo>>

CallQRCode ==
    /\ call.fn = "generate_qrcode"
    /\ call.ret = "pending"
    /\ LET r == generate_qrcode(call.data)
       IN call' = [call EXCEPT !.ret = r.ret, !.events = r.events]
    /\ UNCHANGED <<code_type, data, selectbox_state, page, last, chosen, memo>>

NextAdapters == CallBarcode \/ CallQRCode

SpecAdapters == InitAdapters /\ [][NextAdapters]_vars

\* ------------------------------------------------------------- properties
Adapters == {"generate_barcode", "generate_qrcode"}

\* The run was a submit of a non-empty payload.
Submitted == last.pressed /\ data # NoData

Rendered(events) == Has(events, "st.image") /\ Has(events, "st.download_button")

Failed(events) == HasArg(events, "st.error", "Code generation failed")

\* C1: a run in which Generate is pressed while the payload is empty invokes
\* neither adapter; it emits the warning "Please enter data." and nothing
\* else: no preview, no download button, no error message.
C1_EmptyPayloadWarns ==
    (last.pressed /\ data = NoData) =>
        /\ Count(page, Adapters) = 0
        /\ page = << Event("st.warning", "Please enter data.", NoData) >>
        /\ ~Has(page, "st.image")
        /\ ~Has(page, "st.download_button")
        /\ ~Has(page, "st.error")

C1_Witness ==
    last.pressed /\ data = NoData /\ Has(page, "st.warning")

\* C2 (as claimed): when the user has kind Barcode, has chosen a symbology in
\* the selector and submits a non-empty payload, generate_barcode is invoked
\* with the chosen symbology as barcode_type.
C2_ChosenSymbologyIsUsed ==
    (Submitted /\ code_type = "Barcode" /\ last.chosen # "none") =>
        HasArg(page, "generate_barcode", last.chosen)

\* C3: whenever the adapter of a submit run returns an image, the run shows
\* the image and offers exactly one download, named "barcode.png" iff the
\* kind is Barcode (the image came from generate_barcode) and "qrcode.png"
\* iff the kind is QR Code (the image came from generate_qrcode).
C3_SuccessRendersMatchingFile ==
    HasArg(page, "return", "image") =>
        /\ Has(page, "st.image")
        /\ Count(page, {"st.download_button"}) = 1
        /\ HasArg(page, "st.download_button", "barcode.png") <=> code_type = "Barcode"
        /\ HasArg(page, "st.download_button", "qrcode.png") <=> code_type = "QR Code"
        /\ HasArg(page, "st.download_button", "barcode.png")
              <=> Has(page, "generate_barcode")
        /\ HasArg(page, "st.download_button", "qrcode.png")
              <=> Has(page, "generate_qrcode")

C3_Witness ==
    /\ Has(page, "generate_barcode")
    /\ HasArg(page, "return", "image")
    /\ HasArg(page, "st.download_button", "barcode.png")

\* C4: whenever the adapter of a submit run returns None, the run shows at
\* least one error message and neither a preview nor a download button; no
\* run whose adapter call failed (returned None or raised) offers a download.
C4_FailureShowsErrorNoDownload ==
    /\ HasArg(page, "return", "None") =>
          /\ Has(page, "st.error")
          /\ Failed(page)
          /\ ~Has(page, "st.image")
          /\ ~Has(page, "st.download_button")
    /\ Has(page, "raise") => ~Has(page, "st.download_button")

C4_Witness ==
    /\ Submitted
    /\ HasArg(page, "return", "None")
    /\ Failed(page)

\* The failure kind the claim assigns to an exception class.
ClaimedKind(exc) == CASE exc = "BarcodeNotFoundError" -> "UnsupportedSymbology"
                      [] exc = "NumberOfDigitsError" -> "InvalidPayload"
                      [] exc = "IllegalCharacterError" -> "IllegalCharacter"
                      [] OTHER -> "Unknown"

\* C5 (as claimed): generate_barcode lets no exception escape; whenever the
\* lookup, the construction or the write fails it returns None after exactly
\* one report, of kind UnsupportedSymbology, InvalidPayload, IllegalCharacter
\* or (for any other failure) Unknown.
C5_NoExceptionEscapes ==
    (call.fn = "generate_barcode" /\ call.ret # "pending") =>
        /\ call.ret # "raise"
        /\ BarcodeTry(call.data, call.barcode_type) # "ok" =>
              /\ call.ret = "None"
              /\ Count(call.events, {"st.error"}) = 1
              /\ HasArg(call.events, "st.error",
                        ClaimedKind(BarcodeTry(call.data, call.barcode_type)))

\* C6 (as claimed): for each of the six symbologies, a payload with a
\* character outside the symbology's character set yields Failure with kind
\* IllegalCharacter.
C6_IllegalCharacterReported ==
    (/\ call.fn = "generate_barcode"
     /\ call.ret # "pending"
     /\ call.barcode_type \in {OPTIONS[i] : i \in 1..Len(OPTIONS)}
     /\ ~InCharset(call.data, call.barcode_type)) =>
        /\ call.ret = "None"
        /\ HasArg(call.events, "st.error", "IllegalCharacter")

\* C7 (as claimed): generate_qrcode returns an image for every non-empty
\* payload, whatever its length.
C7_QRAlwaysSucceeds ==
    (call.fn = "generate_qrcode" /\ call.ret # "pending" /\ call.data # NoData) => call.ret = "image"

\* C7 (amended): generate_qrcode returns an image for exactly the non-empty
\* payloads whose segments need no more bits than the largest symbol holds
\* (version 40 at error correction L: 23,648 bits, 7,089 digits); for a longer
\* payload it reports one Unknown failure and returns None.
C7_QRSucceedsWithinCapacity ==
    (call.fn = "generate_qrcode" /\ call.ret # "pending" /\ call.data # NoData) =>
        /\ call.ret = "image"
              <=> NeededBits(call.data, MaxVersion) <= BitLimit(MaxVersion)
        /\ call.ret \in {"image", "None"}
        /\ call.ret = "None" =>
              /\ Count(call.events, {"st.error"}) = 1
              /\ HasArg(call.events, "st.error", "Unknown")

C7_Witness ==
    /\ call.fn = "generate_qrcode"
    /\ call.data = [digits |-> NumericCapacity, tail |-> ""]
    /\ call.ret = "image"

\* C8: a submit made with the same kind, payload and selector as the user
\* sees them as an earlier, remembered submit produces the same page (the
\* same adapter call with the same arguments, the same outcome), whatever
\* happened in between.
C8_SameInputSameOutcome ==
    (/\ last.pressed
     /\ memo.set
     /\ memo.code_type = code_type
     /\ memo.data = data
     /\ memo.shown = last.shown) => memo.outcome = page

C8_Witness ==
    /\ last.pressed
    /\ memo.set
    /\ memo.age = 1
    /\ memo.code_type = code_type
    /\ memo.data = data
    /\ memo.shown = last.shown
    /\ Has(page, "return")
    /\ memo.outcome = page

\* C9 (as claimed): a submit of a non-empty payload makes exactly one adapter
\* call, of the adapter of the selected kind; the call returns before any
\* preview, download button or generic failure message; and the run ends in
\* exactly one of Rendered and Failed.
C9_OneCallThenRenderedOrFailed ==
    Submitted =>
        /\ Count(page, Adapters) = 1
        /\ Has(page, "generate_barcode") <=> code_type = "Barcode"
        /\ Count(page, {"return"}) = 1
        /\ \A i, j \in 1..Len(page) :
              (/\ page[i].op = "return"
               /\ \/ page[j].op \in {"st.image", "st.download_button"}
                  \/ page[j] = Event("st.error", "Code generation failed", NoData))
              => i < j
        /\ Rendered(page) # Failed(page)

\* C10: a run in which the button does not report pressed invokes no adapter
\* and emits nothing (no warning, error, preview, download button or
\* selector), so nothing of an earlier submit's page is left on the page.
C10_NoSubmitNoOutput ==
    ~last.pressed =>
        /\ page = <<>>
        /\ Count(page, Adapters) = 0
        /\ Shown(page) = "none"
        /\ selectbox_state = "none"

C10_Witness ==
    /\ ~last.pressed
    /\ memo.set
    /\ Rendered(memo.outcome)
    /\ page = <<>>

====
